---- MODULE Spec2Model ----
(***************************************************************************)
(* A model of the PII masking service: the masking engine (mask_pii), the  *)
(* response parser (parse_json_response), the extraction step              *)
(* (extract_pii) and the POST /mask-pii handler (mask_pii_endpoint).       *)
(*                                                                         *)
(* Python strings are sequences of one-character strings.  Python / JSON   *)
(* values are tagged records:                                              *)
(*    [kind |-> "none"]                      None / null                   *)
(*    [kind |-> "str",  s |-> <<chars>>]     str                           *)
(*    [kind |-> "num",  s |-> <<digits>>]    int                           *)
(*    [kind |-> "list", items |-> <<...>>]   list                          *)
(*    [kind |-> "dict", d |-> [key -> value], order |-> <<keys>>]   dict   *)
(***************************************************************************)
EXTENDS Integers, Sequences, FiniteSets, TLC

VARIABLES
    \* ---- one call of mask_pii(input_text, extracted_pii, config) ----
    input_text,      \* argument
    extracted_pii,   \* argument
    config,          \* argument
    masked_text,     \* local of mask_pii
    idx,             \* position of the for loop in extracted_pii
    mpc,             \* "idle" | "call" | "loop" | "returned" | "raised"
    mexc,            \* the exception mask_pii raised, "none" otherwise
    \* ---- one call of parse_json_response(response) ----
    payload_text,    \* the JSON text the response was built around
    wrapping,        \* how the response wraps it (fence, tag, prose)
    response,        \* argument
    json_str,        \* local of parse_json_response
    parsed,          \* what the call returned or raised
    ppc,             \* "idle" | "call" | "selected" | "returned" | "raised"
    \* ---- one POST /mask-pii request ----
    request_texts,       \* request.texts
    request_pii_config,  \* request.pii_config: category name -> mask string
    DynamicPIIConfig,    \* the model class built for the request
    text_i,              \* position of the for loop in request.texts
    prompts,             \* the text of each user prompt sent to the provider
    completions,         \* what the provider answered, one entry per call made
    extracted,           \* extracted_pii of the current text
    masked_texts,        \* local of the handler
    all_detected_pii,    \* local of the handler
    http_response,       \* the response sent, status 0 while there is none
    epc,                 \* "idle" | "received" | "extract" | "completion" |
                         \* "mask" | "respond" | "done"
    \* ---- one call of create_dynamic_pii_config(pii_config_dict) ----
    builder_input,       \* argument: category name -> mask string
    builder_output,      \* the class returned
    bpc,                 \* "idle" | "call" | "returned"
    \* ---- one construction of Settings() ----
    environ,             \* os.environ: variable name -> value
    dotenv,              \* the .env file: variable name -> value
    settings,            \* the instance built, or the exception raised
    spc                  \* "idle" | "start" | "done"

maskVars == <<input_text, extracted_pii, config, masked_text, idx, mpc, mexc>>
parseVars == <<payload_text, wrapping, response, json_str, parsed, ppc>>

endpointVars == <<request_texts, request_pii_config, DynamicPIIConfig, text_i,
                  prompts, completions, extracted, masked_texts, all_detected_pii,
                  http_response, epc>>

buildVars == <<builder_input, builder_output, bpc>>
settingsVars == <<environ, dotenv, settings, spc>>

vars == <<input_text, extracted_pii, config, masked_text, idx, mpc, mexc,
          payload_text, wrapping, response, json_str, parsed, ppc,
          request_texts, request_pii_config, DynamicPIIConfig, text_i,
          prompts, completions, extracted, masked_texts, all_detected_pii,
          http_response, epc,
          builder_input, builder_output, bpc,
          environ, dotenv, settings, spc>>

-----------------------------------------------------------------------------
(* Bounds *)

MaxTextLen == 3      \* longest input text of a mask_pii call
MaxFindings == 2     \* longest findings list of a mask_pii call
MaxBodyLen == 3      \* longest enumerated JSON text of a parse_json_response call
MaxTexts == 2        \* most texts in one request
MaxCategories == 3   \* most categories in a mapping given to the schema builder

-----------------------------------------------------------------------------
(* Python values *)

PyNone == [kind |-> "none"]
PyStr(s) == [kind |-> "str", s |-> s]
PyNum(s) == [kind |-> "num", s |-> s]
PyList(items) == [kind |-> "list", items |-> items]
PyDict(d, order) == [kind |-> "dict", d |-> d, order |-> order]
EmptyDict == PyDict(<<>>, <<>>)

\* bool(v)
Truthy(v) ==
    CASE v.kind = "none" -> FALSE
      [] v.kind = "str"  -> v.s # <<>>
      [] v.kind = "num"  -> v.s # <<"0">>
      [] v.kind = "list" -> v.items # <<>>
      [] v.kind = "dict" -> v.order # <<>>

\* dict.get(key): the value, None when the key is absent
DictGet(v, key) == IF key \in DOMAIN v.d THEN v.d[key] ELSE PyNone

\* dict[key] = value (a key already present keeps its position)
DictSet(v, key, value) ==
    PyDict((key :> value) @@ v.d,
           IF key \in DOMAIN v.d THEN v.order ELSE Append(v.order, key))

-----------------------------------------------------------------------------
(* str.replace *)

\* old occurs in s at position i
OccursAt(s, old, i) ==
    /\ i >= 1
    /\ i + Len(old) - 1 <= Len(s)
    /\ \A k \in 1..Len(old) : s[i + k - 1] = old[k]

RECURSIVE ReplaceFrom(_, _, _, _)
ReplaceFrom(s, old, new, i) ==
    IF i > Len(s) THEN <<>>
    ELSE IF OccursAt(s, old, i)
         THEN new \o ReplaceFrom(s, old, new, i + Len(old))
         ELSE <<s[i]>> \o ReplaceFrom(s, old, new, i + 1)

RECURSIVE Interleave(_, _, _)
Interleave(s, new, i) ==
    IF i > Len(s) THEN new ELSE new \o <<s[i]>> \o Interleave(s, new, i + 1)

\* replaces only the first occurrence (str.replace(old, new, 1))
StrReplaceFirst(s, old, new) ==
    IF \E i \in 1..Len(s) : OccursAt(s, old, i)
    THEN LET i == CHOOSE j \in 1..Len(s) :
                      /\ OccursAt(s, old, j)
                      /\ \A k \in 1..(j - 1) : ~OccursAt(s, old, k)
         IN  SubSeq(s, 1, i - 1) \o new \o SubSeq(s, i + Len(old), Len(s))
    ELSE s

\* s.replace(old, new): every left-to-right non-overlapping occurrence
StrReplace(s, old, new) ==
    IF old = <<>> THEN Interleave(s, new, 1) ELSE ReplaceFrom(s, old, new, 1)

-----------------------------------------------------------------------------
(* mask_pii *)

K_pii == <<"p", "i", "i">>
K_type == <<"t", "y", "p", "e">>
K_mask == <<"m", "a", "s", "k">>

\* the result of one statement sequence: an exception name or "none"
Ok(text) == [exc |-> "none", text |-> text]
Raise(e) == [exc |-> e, text |-> <<>>]

\* hasattr(config, "model_fields")
HasModelFields(cfg) == cfg.has_model_fields

LowerChar(c) == IF c = "E" THEN "e" ELSE c
LowerStr(s) == [k \in 1..Len(s) |-> LowerChar(s[k])]
\* a lookup that folds case
TypeLookupAnyCase(pii_type, config_fields) ==
    IF pii_type.kind \in {"list", "dict"} THEN "TypeError"
    ELSE IF pii_type.kind = "str"
            /\ \E key \in DOMAIN config_fields : LowerStr(key) = LowerStr(pii_type.s)
         THEN "found" ELSE "absent"

\* pii_type in config_fields   (dict membership hashes the key)
TypeLookup(pii_type, config_fields) ==
    IF pii_type.kind \in {"list", "dict"} THEN "TypeError"
    ELSE IF pii_type.kind = "str" /\ pii_type.s \in DOMAIN config_fields
         THEN "found" ELSE "absent"

\* config_fields[pii_type].json_schema_extra.get("mask")
GetMask(field) ==
    IF field.json_schema_extra.kind = "dict"
    THEN [exc |-> "none", mask |-> DictGet(field.json_schema_extra, K_mask)]
    ELSE [exc |-> "AttributeError", mask |-> PyNone]

\* line 176: not pii_value or not pii_type
InvalidEntryNoneOnly(pii_value, pii_type) == pii_value = PyNone \/ pii_type = PyNone
InvalidEntry(pii_value, pii_type) == ~Truthy(pii_value) \/ ~Truthy(pii_type)

\* the loop body with a type lookup that folds case
MaskOneAnyCase(text, pii, config_fields) ==
    IF pii.kind # "dict" THEN Raise("AttributeError")
    ELSE
      LET pii_type == DictGet(pii, K_type)
          pii_value == DictGet(pii, K_pii)
      IN  IF InvalidEntry(pii_value, pii_type) THEN Ok(text)
          ELSE
            LET look == TypeLookupAnyCase(pii_type, config_fields)
            IN  IF look = "TypeError" THEN Raise("TypeError")
                ELSE IF look = "absent" THEN Ok(text)
                ELSE
                  LET key == CHOOSE k \in DOMAIN config_fields :
                                 LowerStr(k) = LowerStr(pii_type.s)
                      got == GetMask(config_fields[key])
                  IN  IF got.exc # "none" THEN Raise(got.exc)
                      ELSE IF ~Truthy(got.mask) THEN Ok(text)
                      ELSE IF pii_value.kind # "str" \/ got.mask.kind # "str"
                           THEN Raise("TypeError")
                      ELSE Ok(StrReplace(text, pii_value.s, got.mask.s))

\* the body of the for loop, for one element pii of extracted_pii
MaskOne(text, pii, config_fields) ==
    IF pii.kind # "dict" THEN Raise("AttributeError")     \* pii.get
    ELSE
      LET pii_type == DictGet(pii, K_type)
          pii_value == DictGet(pii, K_pii)
      IN  IF InvalidEntry(pii_value, pii_type) THEN Ok(text)
          ELSE
            LET look == TypeLookup(pii_type, config_fields)
            IN  IF look = "TypeError" THEN Raise("TypeError")
                ELSE IF look = "absent" THEN Ok(text)
                ELSE
                  LET got == GetMask(config_fields[pii_type.s])
                  IN  IF got.exc # "none" THEN Raise(got.exc)
                      ELSE IF ~Truthy(got.mask) THEN Ok(text)
                      ELSE IF pii_value.kind # "str" \/ got.mask.kind # "str"
                           THEN Raise("TypeError")         \* str.replace
                      ELSE Ok(StrReplace(text, pii_value.s, got.mask.s))

RECURSIVE SeqMap1(_)
SeqMap1(s) == IF s = <<>> THEN <<>> ELSE <<PyStr(<<Head(s)>>)>> \o SeqMap1(Tail(s))

RECURSIVE KeysOf(_)
KeysOf(order) ==
    IF order = <<>> THEN <<>> ELSE <<PyStr(Head(order))>> \o KeysOf(Tail(order))

\* iter(extracted_pii): the elements the for loop visits
Iterable(v) == v.kind \in {"list", "dict", "str"}
IterItems(v) ==
    CASE v.kind = "list" -> v.items
      [] v.kind = "dict" -> KeysOf(v.order)
      [] v.kind = "str"  -> SeqMap1(v.s)
      [] OTHER -> <<>>

\* the loop taking the findings from the last to the first
LoopItemReversed(items, i) == items[Len(items) + 1 - i]

\* line 172: the item of the i-th iteration of `for item in extracted_pii`
LoopItem(items, i) == items[i]

RECURSIVE MaskLoop(_, _, _, _)
MaskLoop(text, items, i, config_fields) ==
    IF i > Len(items) THEN Ok(text)
    ELSE LET r == MaskOne(text, LoopItem(items, i), config_fields)
         IN  IF r.exc # "none" THEN r
             ELSE MaskLoop(r.text, items, i + 1, config_fields)

\* mask_pii(input_text, extracted_pii, config) as one call
MaskPii(text, findings, cfg) ==
    IF ~HasModelFields(cfg) THEN Raise("ValueError")
    ELSE IF ~Iterable(findings) THEN Raise("TypeError")
    ELSE MaskLoop(text, IterItems(findings), 1, cfg.model_fields)


-----------------------------------------------------------------------------
(* json.loads, over the characters the model's texts are made of *)

\* the backtick character (a string literal cannot hold it)
BT == "BACKTICK"
QT == "\""
NL == "\n"

JsonWs == {" ", NL}
Digits == {"0", "1"}

Parsed(v, pos) == [ok |-> TRUE, val |-> v, pos |-> pos]
ParseFail == [ok |-> FALSE, val |-> PyNone, pos |-> 0]

CharAt(s, i) == IF i >= 1 /\ i <= Len(s) THEN s[i] ELSE "EOF"

RECURSIVE SkipJsonWs(_, _)
SkipJsonWs(s, i) == IF CharAt(s, i) \in JsonWs THEN SkipJsonWs(s, i + 1) ELSE i

\* a string literal starting at the quote s[i]: up to the next quote, no
\* control character inside
ScanString(s, i) ==
    IF \E j \in (i + 1)..Len(s) : s[j] = QT
    THEN LET j == CHOOSE k \in (i + 1)..Len(s) :
                      s[k] = QT /\ \A m \in (i + 1)..(k - 1) : s[m] # QT
         IN  IF \E m \in (i + 1)..(j - 1) : s[m] = NL THEN ParseFail
             ELSE Parsed(PyStr(SubSeq(s, i + 1, j - 1)), j + 1)
    ELSE ParseFail

RECURSIVE DigitsEnd(_, _)
DigitsEnd(s, i) == IF CharAt(s, i) \in Digits THEN DigitsEnd(s, i + 1) ELSE i

\* an integer literal starting at the digit s[i]: 0 | [1-9][0-9]*
ScanNumber(s, i) ==
    LET e == IF s[i] = "0" THEN i + 1 ELSE DigitsEnd(s, i)
    IN  Parsed(PyNum(SubSeq(s, i, e - 1)), e)

RECURSIVE ScanValue(_, _)
RECURSIVE ScanElements(_, _, _)
RECURSIVE ScanMembers(_, _, _)

\* the elements of an array, s[i] being the start of the next value
ScanElements(s, i, acc) ==
    LET v == ScanValue(s, i)
    IN  IF ~v.ok THEN ParseFail
        ELSE LET k == SkipJsonWs(s, v.pos)
                 items == Append(acc, v.val)
             IN  IF CharAt(s, k) = "]" THEN Parsed(PyList(items), k + 1)
                 ELSE IF CharAt(s, k) = ","
                      THEN ScanElements(s, SkipJsonWs(s, k + 1), items)
                      ELSE ParseFail

\* the members of an object, s[i] being where the next key must start
ScanMembers(s, i, acc) ==
    IF CharAt(s, i) # QT THEN ParseFail
    ELSE LET key == ScanString(s, i)
         IN  IF ~key.ok THEN ParseFail
             ELSE LET c == SkipJsonWs(s, key.pos)
                  IN  IF CharAt(s, c) # ":" THEN ParseFail
                      ELSE LET v == ScanValue(s, SkipJsonWs(s, c + 1))
                           IN  IF ~v.ok THEN ParseFail
                               ELSE LET k == SkipJsonWs(s, v.pos)
                                        d == DictSet(acc, key.val.s, v.val)
                                    IN  IF CharAt(s, k) = "}" THEN Parsed(d, k + 1)
                                        ELSE IF CharAt(s, k) = ","
                                             THEN ScanMembers(s, SkipJsonWs(s, k + 1), d)
                                             ELSE ParseFail

ScanValue(s, i) ==
    LET c == CharAt(s, i)
    IN  IF c = QT THEN ScanString(s, i)
        ELSE IF c = "[" THEN
            LET k == SkipJsonWs(s, i + 1)
            IN  IF CharAt(s, k) = "]" THEN Parsed(PyList(<<>>), k + 1)
                ELSE ScanElements(s, k, <<>>)
        ELSE IF c = "{" THEN
            LET k == SkipJsonWs(s, i + 1)
            IN  IF CharAt(s, k) = "}" THEN Parsed(EmptyDict, k + 1)
                ELSE ScanMembers(s, k, EmptyDict)
        ELSE IF c = "n" THEN
            IF i + 3 <= Len(s) /\ SubSeq(s, i, i + 3) = <<"n", "u", "l", "l">>
            THEN Parsed(PyNone, i + 4) ELSE ParseFail
        ELSE IF c \in Digits THEN ScanNumber(s, i)
        ELSE ParseFail

\* json.loads(s): one value, surrounded by nothing but whitespace
JsonLoads(s) ==
    LET v == ScanValue(s, SkipJsonWs(s, 1))
    IN  IF v.ok /\ SkipJsonWs(s, v.pos) = Len(s) + 1 THEN v ELSE ParseFail

-----------------------------------------------------------------------------
(* parse_json_response *)

PyWs == {" ", NL}

\* str.strip()
RECURSIVE LStrip(_)
LStrip(s) == IF s # <<>> /\ Head(s) \in PyWs THEN LStrip(Tail(s)) ELSE s
RECURSIVE RStrip(_)
RStrip(s) ==
    IF s # <<>> /\ s[Len(s)] \in PyWs THEN RStrip(SubSeq(s, 1, Len(s) - 1)) ELSE s
Strip(s) == RStrip(LStrip(s))

\* the three backticks of the pattern, at position i
FenceAt(s, i) ==
    i >= 1 /\ i + 2 <= Len(s) /\ s[i] = BT /\ s[i + 1] = BT /\ s[i + 2] = BT

\* a pattern without the optional tag group
TagLensNone(s, i) == {0}

\* the optional json tag at position i: the lengths it can match
TagLens(s, i) ==
    IF i + 3 <= Len(s) /\ SubSeq(s, i, i + 3) = <<"j", "s", "o", "n">>
    THEN {4, 0} ELSE {0}

\* the whitespace run of the pattern at position i: how many characters
RECURSIVE WsRun(_, _)
WsRun(s, i) == IF CharAt(s, i) \in PyWs THEN 1 + WsRun(s, i + 1) ELSE 0

\* the ways the pattern matches with its opening fence at i:
\* <<tag length, whitespace taken, start of group 1>>, a closing fence
\* being somewhere at or after the start of group 1
MatchesAt(s, i) ==
    IF ~FenceAt(s, i) THEN {}
    ELSE { m \in UNION { { <<t, w, i + 3 + t + w>> : w \in 0..WsRun(s, i + 3 + t) } :
                           t \in TagLens(s, i + 3) } :
             \E j \in m[3]..Len(s) : FenceAt(s, j) }

\* the match the backtracking engine reports at i: the optional tag taken if
\* it can be, then as much whitespace as can be
BestMatchAt(s, i) ==
    LET M == MatchesAt(s, i)
    IN  CHOOSE m \in M :
            \A o \in M : m[1] > o[1] \/ (m[1] = o[1] /\ m[2] >= o[2])

\* group 1 is lazy: it ends at the nearest closing fence
CloseOf(s, start) ==
    CHOOSE j \in start..Len(s) :
        FenceAt(s, j) /\ \A k \in start..(j - 1) : ~FenceAt(s, k)

\* re.search(pattern, response): the leftmost position with a match
HasMatch(s) == \E i \in 1..Len(s) : MatchesAt(s, i) # {}
SearchStart(s) ==
    CHOOSE i \in 1..Len(s) :
        MatchesAt(s, i) # {} /\ \A k \in 1..(i - 1) : MatchesAt(s, k) = {}

\* match.group(1)
Group1(s) ==
    LET m == BestMatchAt(s, SearchStart(s))
    IN  SubSeq(s, m[3], CloseOf(s, m[3]) - 1)

\* line 86: match.group(1).strip() if match else response.strip()
SelectJsonStr(s) == IF HasMatch(s) THEN Strip(Group1(s)) ELSE Strip(s)

Returned(v) == [exc |-> "none", msg |-> "", value |-> v]
Raised(e, m) == [exc |-> e, msg |-> m, value |-> PyNone]

\* a handler that swallows the decode error and reports no findings
DecodeErrorSwallowed == Returned(PyList(<<>>))

\* lines 89-91: except (re.error, json.JSONDecodeError): raise ValueError(...)
DecodeErrorHandler == Raised("ValueError", "Invalid JSON response")

\* line 87 with its handlers
LoadsOrRaise(json_str_) ==
    LET r == JsonLoads(json_str_)
    IN  IF r.ok THEN Returned(r.val) ELSE DecodeErrorHandler

\* parse_json_response(response); response is [kind |-> "str", s |-> ...]
\* or None (re.search on None raises TypeError, re-raised at lines 93-95)
ParseJsonResponse(resp) ==
    IF resp.kind # "str" THEN Raised("TypeError", "")
    ELSE LoadsOrRaise(SelectJsonStr(resp.s))

-----------------------------------------------------------------------------
(* Inputs of the mask_pii calls *)

RECURSIVE SeqsUpTo(_, _)
SeqsUpTo(S, n) ==
    IF n = 0 THEN {<<>>}
    ELSE LET shorter == SeqsUpTo(S, n - 1)
         IN  shorter \union {Append(s, x) : s \in shorter, x \in S}

MaskAlphabet == {"a", "b"}
MaskTexts == SeqsUpTo(MaskAlphabet, MaxTextLen)

T_email == <<"e", "m", "a", "i", "l">>
T_Email == <<"E", "m", "a", "i", "l">>
T_phone == <<"p", "h", "o", "n", "e">>
T_dob == <<"d", "o", "b">>
T_zip == <<"z", "i", "p">>
T_ssn == <<"s", "s", "n">>

\* {"pii": p, "type": t}
Finding(p, t) == DictSet(DictSet(EmptyDict, K_pii, p), K_type, t)
OnlyPii(p) == DictSet(EmptyDict, K_pii, p)
OnlyType(t) == DictSet(EmptyDict, K_type, t)

\* Field(..., json_schema_extra={"mask": m})
FieldWithMask(m) == [json_schema_extra |-> DictSet(EmptyDict, K_mask, PyStr(m))]
\* Field(..., json_schema_extra={})
FieldEmptyExtra == [json_schema_extra |-> EmptyDict]
\* Field(default="")  -- json_schema_extra is None
FieldNoExtra == [json_schema_extra |-> PyNone]

ModelClass(fields) == [has_model_fields |-> TRUE, model_fields |-> fields]
\* object(): no model_fields attribute
NotAModel == [has_model_fields |-> FALSE, model_fields |-> <<>>]

MaskConfigs ==
    { ModelClass((T_email :> FieldWithMask(<<"X">>))
                 @@ (T_phone :> FieldWithMask(<<"b", "a">>))),
      ModelClass((T_email :> FieldWithMask(<<"b">>))
                 @@ (T_dob :> FieldWithMask(<<>>))
                 @@ (T_zip :> FieldEmptyExtra)
                 @@ (T_ssn :> FieldNoExtra)),
      NotAModel }

MaskFindings ==
    { Finding(PyStr(<<"a">>), PyStr(T_email)),
      Finding(PyStr(<<"a", "a">>), PyStr(T_email)),
      Finding(PyStr(<<"b">>), PyStr(T_phone)),
      Finding(PyStr(<<"a">>), PyStr(T_Email)),
      Finding(PyStr(<<"a">>), PyStr(T_dob)),
      Finding(PyStr(<<"a">>), PyStr(T_zip)),
      Finding(PyStr(<<"a">>), PyStr(T_ssn)),
      Finding(PyNone, PyStr(T_email)),
      Finding(PyStr(<<>>), PyStr(T_email)),
      Finding(PyStr(<<"a">>), PyNone),
      Finding(PyStr(<<"a">>), PyStr(<<>>)),
      OnlyPii(PyStr(<<"a">>)),
      OnlyType(PyStr(T_email)),
      EmptyDict,
      PyNum(<<"1">>) }

MaskFindingLists == {PyList(l) : l \in SeqsUpTo(MaskFindings, MaxFindings)}

-----------------------------------------------------------------------------
(* Inputs of the parse_json_response calls *)

\* json.dumps of a string without escapes
Quoted(s) == <<QT>> \o s \o <<QT>>

\* json.dumps({"pii": p, "type": t}), without the spaces
FindingText(p, t) ==
    <<"{">> \o Quoted(K_pii) \o <<":">> \o Quoted(p) \o <<",">>
            \o Quoted(K_type) \o <<":">> \o Quoted(t) \o <<"}">>

ArrayOf(body) == <<"[">> \o body \o <<"]">>

Fence == <<BT, BT, BT>>
JsonTag == <<"j", "s", "o", "n">>

BodyAlphabet == {"[", "]", "1", ",", " "}

PayloadTexts ==
    SeqsUpTo(BodyAlphabet, MaxBodyLen) \union
    { ArrayOf(FindingText(<<"a">>, <<"b">>)),
      ArrayOf(Quoted(Fence)),
      ArrayOf(Quoted(<<"a">> \o Fence \o <<"b">> \o Fence)),
      ArrayOf(<<"n", "u", "l", "l">>),
      ArrayOf(<<"[", "1", "]", ",", " ">> \o Quoted(<<"a">>)),
      FindingText(<<"a">>, <<"b">>),
      <<"{", "}">>,
      Quoted(<<"a">>),
      <<"n", "u", "l", "l">>,
      <<"0", "1">>,
      <<"n", "o", "t", " ", "j", "s", "o", "n">> }

Wrappings ==
    { "plain", "padded", "fence_json", "fence_plain", "fence_json_tight",
      "fence_prose", "fence_other_tag", "two_blocks", "unclosed" }

\* the response text: the payload text inside the wrapping
Wrap(w, b) ==
    CASE w = "plain"            -> b
      [] w = "padded"           -> <<" ">> \o b \o <<NL>>
      [] w = "fence_json"       -> Fence \o JsonTag \o <<NL>> \o b \o <<NL>> \o Fence
      [] w = "fence_plain"      -> Fence \o <<NL>> \o b \o <<NL>> \o Fence
      [] w = "fence_json_tight" -> Fence \o JsonTag \o b \o Fence
      [] w = "fence_prose"      -> <<"a", " ">> \o Fence \o JsonTag \o <<NL>> \o b
                                   \o <<NL>> \o Fence \o <<" ", "a">>
      [] w = "fence_other_tag"  -> Fence \o <<"j", "s", NL>> \o b \o <<NL>> \o Fence
      [] w = "two_blocks"       -> Fence \o <<NL>> \o b \o <<NL>> \o Fence \o <<NL>>
                                   \o Fence \o <<"[", "1", "]">> \o Fence
      [] w = "unclosed"         -> Fence \o JsonTag \o <<NL>> \o b

-----------------------------------------------------------------------------
(* parse_json_response, statement by statement *)

ParseIdle ==
    /\ payload_text = <<>>
    /\ wrapping = "none"
    /\ response = PyNone
    /\ json_str = <<>>
    /\ parsed = Returned(PyNone)
    /\ ppc = "idle"

ParseInit ==
    /\ \/ /\ payload_text \in PayloadTexts
          /\ wrapping \in Wrappings
          /\ response = PyStr(Wrap(wrapping, payload_text))
       \/ /\ payload_text = <<>>
          /\ wrapping = "none"
          /\ response = PyNone
    /\ json_str = <<>>
    /\ parsed = Returned(PyNone)
    /\ ppc = "call"

\* lines 84-86: the search and the choice of json_str
ParseSelect ==
    /\ ppc = "call"
    /\ IF response.kind # "str"
       THEN /\ ppc' = "raised"
            /\ parsed' = Raised("TypeError", "")
            /\ UNCHANGED json_str
       ELSE /\ ppc' = "selected"
            /\ json_str' = SelectJsonStr(response.s)
            /\ UNCHANGED parsed
    /\ UNCHANGED <<payload_text, wrapping, response>>
    /\ UNCHANGED <<maskVars, endpointVars, buildVars, settingsVars>>

\* lines 87-91: json.loads and the handler of its error
ParseLoads ==
    /\ ppc = "selected"
    /\ parsed' = LoadsOrRaise(json_str)
    /\ ppc' = IF LoadsOrRaise(json_str).exc = "none" THEN "returned" ELSE "raised"
    /\ UNCHANGED <<payload_text, wrapping, response, json_str>>
    /\ UNCHANGED <<maskVars, endpointVars, buildVars, settingsVars>>

NextParse == ParseSelect \/ ParseLoads

ParseDone == ppc \in {"returned", "raised"}

-----------------------------------------------------------------------------
(* mask_pii, statement by statement *)

MaskIdle ==
    /\ input_text = <<>>
    /\ extracted_pii = PyNone
    /\ config = NotAModel
    /\ masked_text = <<>>
    /\ idx = 0
    /\ mpc = "idle"
    /\ mexc = "none"

MaskInit ==
    /\ input_text \in MaskTexts
    /\ extracted_pii \in MaskFindingLists \union {PyNone, EmptyDict}
    /\ config \in MaskConfigs
    /\ masked_text = <<>>
    /\ idx = 0
    /\ mpc = "call"
    /\ mexc = "none"

\* lines 166-170: masked_text = input_text; the hasattr check; entering the loop
MaskEnter ==
    /\ mpc = "call"
    /\ masked_text' = input_text
    /\ IF ~HasModelFields(config)
       THEN mpc' = "raised" /\ mexc' = "ValueError" /\ idx' = idx
       ELSE IF ~Iterable(extracted_pii)
            THEN mpc' = "raised" /\ mexc' = "TypeError" /\ idx' = idx
            ELSE mpc' = "loop" /\ mexc' = mexc /\ idx' = 1
    /\ UNCHANGED <<input_text, extracted_pii, config>>
    /\ UNCHANGED <<parseVars, endpointVars, buildVars, settingsVars>>

\* lines 172-185: one iteration of the for loop
MaskIter ==
    /\ mpc = "loop"
    /\ idx <= Len(IterItems(extracted_pii))
    /\ LET r == MaskOne(masked_text, LoopItem(IterItems(extracted_pii), idx),
                        config.model_fields)
       IN  IF r.exc # "none"
           THEN /\ mpc' = "raised"
                /\ mexc' = r.exc
                /\ UNCHANGED <<masked_text, idx>>
           ELSE /\ masked_text' = r.text
                /\ idx' = idx + 1
                /\ UNCHANGED <<mpc, mexc>>
    /\ UNCHANGED <<input_text, extracted_pii, config>>
    /\ UNCHANGED <<parseVars, endpointVars, buildVars, settingsVars>>

\* line 187: return masked_text
MaskReturn ==
    /\ mpc = "loop"
    /\ idx > Len(IterItems(extracted_pii))
    /\ mpc' = "returned"
    /\ UNCHANGED <<input_text, extracted_pii, config, masked_text, idx, mexc>>
    /\ UNCHANGED <<parseVars, endpointVars, buildVars, settingsVars>>

NextMask == MaskEnter \/ MaskIter \/ MaskReturn


\* the outcome of the finished call, in the shape MaskPii returns
MaskDone == mpc \in {"returned", "raised"}
MaskOutcome == IF mpc = "returned" THEN Ok(masked_text) ELSE Raise(mexc)

-----------------------------------------------------------------------------
(* POST /mask-pii *)

\* the builder refusing the empty mapping: no model class comes back
CreateDynamicPiiConfigNonEmpty(pii_config_dict) ==
    IF DOMAIN pii_config_dict = {} THEN NotAModel
    ELSE ModelClass([t \in DOMAIN pii_config_dict |->
                         FieldWithMask(pii_config_dict[t])])

\* create_dynamic_pii_config: one required field per category, the mask as
\* json_schema_extra
CreateDynamicPiiConfig(pii_config_dict) ==
    ModelClass([t \in DOMAIN pii_config_dict |->
                    FieldWithMask(pii_config_dict[t])])

NoResponse ==
    [status |-> 0, detail |-> "", original_texts |-> <<>>,
     masked_texts |-> <<>>, detected_pii |-> <<>>]

\* raise HTTPException(status_code, detail)
HttpError(status, detail) ==
    [status |-> status, detail |-> detail, original_texts |-> <<>>,
     masked_texts |-> <<>>, detected_pii |-> <<>>]

\* return MaskResponse(...)
HttpOk(texts, masked, detected) ==
    [status |-> 200, detail |-> "", original_texts |-> texts,
     masked_texts |-> masked, detected_pii |-> detected]

\* lines 93-105: the except clauses of the handler, in their order
ExceptionResponse(exc, msg) ==
    IF exc = "ValidationError" THEN HttpError(400, "Invalid PII configuration")
    ELSE IF exc = "ValueError" THEN HttpError(400, msg)
    ELSE HttpError(500, "Internal server error")

\* text.strip() is empty
Blank(text) == Strip(text) = <<>>

\* the handler going back to the provider call after a failed extraction
OnExtractErrorRetry == "extract"

\* lines 140-145 and 93-105: the exception leaves extract_pii and the loop,
\* the handler ends with the error response
OnExtractError == "done"

\* the result list with its newest entry put first
ListPrepend(list, item) == <<item>> \o list

\* list.append(item) of lines 75 and 79
ListAppend(list, item) == Append(list, item)

\* a validation that looks at the first text only
ValidateRequestFirstOnly(texts, pii_config) ==
    IF DOMAIN pii_config = {} THEN "PII configuration cannot be empty"
    ELSE IF texts = <<>> THEN "Input texts cannot be empty"
    ELSE IF Blank(texts[1])
         THEN "Input texts cannot be empty strings or whitespace only"
    ELSE ""

\* lines 49-61: the message of the ValueError raised, "" when none is
\* (request.texts is declared List[str], so the isinstance check of line 57
\* passes for every request that reaches the handler)
ValidateRequest(texts, pii_config) ==
    IF DOMAIN pii_config = {} THEN "PII configuration cannot be empty"
    ELSE IF texts = <<>> THEN "Input texts cannot be empty"
    ELSE IF \E k \in 1..Len(texts) : Blank(texts[k])
         THEN "Input texts cannot be empty strings or whitespace only"
    ELSE ""

\* what one provider call can end in: an OpenAIError (network, auth, timeout,
\* rate limit), or a completion whose content is a text or None
ProviderError == [kind |-> "error", content |-> PyNone]
Completion(content) == [kind |-> "completion", content |-> content]

CompletionTexts ==
    { ArrayOf(<<>>),
      ArrayOf(FindingText(<<"a">>, T_email)),
      Wrap("fence_json", ArrayOf(FindingText(<<"b">>, T_email))),
      ArrayOf(FindingText(<<"a">>, T_Email)),
      ArrayOf(<<"{">> \o Quoted(K_pii) \o <<":", "n", "u", "l", "l", "}">>),
      ArrayOf(<<"1">>),
      <<"{", "}">>,
      <<"1">>,
      <<"n", "o", "t", " ", "j", "s", "o", "n">> }

ProviderOutcomes ==
    {ProviderError, Completion(PyNone)}
        \union {Completion(PyStr(c)) : c \in CompletionTexts}

\* extract_pii that logs a failure and reports no findings
ExtractPiiSwallowing(outcome) ==
    IF outcome.kind = "error" THEN Returned(PyList(<<>>))
    ELSE IF ParseJsonResponse(outcome.content).exc # "none"
         THEN Returned(PyList(<<>>))
         ELSE ParseJsonResponse(outcome.content)

\* extract_pii from the provider's answer on: lines 135-145
ExtractPii(outcome) ==
    IF outcome.kind = "error" THEN Raised("OpenAIError", "")
    ELSE ParseJsonResponse(outcome.content)

\* detected_pii: List[List[Dict[str, str]]], one element of the outer list
IsStrDict(v) ==
    v.kind = "dict" /\ \A k \in DOMAIN v.d : v.d[k].kind = "str"
IsListOfStrDicts(v) ==
    v.kind = "list" /\ \A k \in 1..Len(v.items) : IsStrDict(v.items[k])

RequestTextSet == {<<"a", "b">>, <<"b">>, <<" ">>, <<>>}

PiiConfigs ==
    { <<>>,
      (T_email :> <<"X">>),
      (T_email :> <<"X">>) @@ (T_phone :> <<>>) }

EndpointIdle ==
    /\ request_texts = <<>>
    /\ request_pii_config = <<>>
    /\ DynamicPIIConfig = NotAModel
    /\ text_i = 0
    /\ prompts = <<>>
    /\ completions = <<>>
    /\ extracted = PyNone
    /\ masked_texts = <<>>
    /\ all_detected_pii = <<>>
    /\ http_response = NoResponse
    /\ epc = "idle"

EndpointInit ==
    /\ request_texts \in SeqsUpTo(RequestTextSet, MaxTexts)
    /\ request_pii_config \in PiiConfigs
    /\ DynamicPIIConfig = NotAModel
    /\ text_i = 0
    /\ prompts = <<>>
    /\ completions = <<>>
    /\ extracted = PyNone
    /\ masked_texts = <<>>
    /\ all_detected_pii = <<>>
    /\ http_response = NoResponse
    /\ epc = "received"

\* lines 49-70: the checks, the model class, the empty result lists
Validate ==
    /\ epc = "received"
    /\ LET err == ValidateRequest(request_texts, request_pii_config)
       IN  IF err # ""
           THEN /\ http_response' = ExceptionResponse("ValueError", err)
                /\ epc' = "done"
                /\ UNCHANGED <<DynamicPIIConfig, text_i>>
           ELSE /\ DynamicPIIConfig' = CreateDynamicPiiConfig(request_pii_config)
                /\ text_i' = 1
                /\ epc' = "extract"
                /\ UNCHANGED http_response
    /\ masked_texts' = <<>>
    /\ all_detected_pii' = <<>>
    /\ UNCHANGED <<request_texts, request_pii_config, prompts, completions, extracted>>
    /\ UNCHANGED <<maskVars, parseVars, buildVars, settingsVars>>

\* line 74 into extract_pii, lines 113-134: the one provider call for the text
ExtractCall ==
    /\ epc = "extract"
    /\ IF DOMAIN DynamicPIIConfig.model_fields = {}
       THEN /\ http_response' =
                  ExceptionResponse("ValueError",
                                    "No PII types defined in configuration")
            /\ epc' = "done"
            /\ UNCHANGED <<prompts, completions>>
       ELSE /\ \E outcome \in ProviderOutcomes :
                  completions' = Append(completions, outcome)
            /\ prompts' = Append(prompts, request_texts[text_i])
            /\ epc' = "completion"
            /\ UNCHANGED http_response
    /\ UNCHANGED <<request_texts, request_pii_config, DynamicPIIConfig, text_i,
                   extracted, masked_texts, all_detected_pii>>
    /\ UNCHANGED <<maskVars, parseVars, buildVars, settingsVars>>

\* lines 135-145 and line 75: the rest of extract_pii, the append
ExtractReturn ==
    /\ epc = "completion"
    /\ LET r == ExtractPii(completions[Len(completions)])
       IN  IF r.exc # "none"
           THEN /\ http_response' = ExceptionResponse(r.exc, r.msg)
                /\ epc' = OnExtractError
                /\ UNCHANGED <<extracted, all_detected_pii>>
           ELSE /\ extracted' = r.value
                /\ all_detected_pii' = ListAppend(all_detected_pii, r.value)
                /\ epc' = "mask"
                /\ UNCHANGED http_response
    /\ UNCHANGED <<request_texts, request_pii_config, DynamicPIIConfig, text_i,
                   prompts, completions, masked_texts>>
    /\ UNCHANGED <<maskVars, parseVars, buildVars, settingsVars>>

\* lines 78-79: mask_pii on the text, the append, the next text
MaskText ==
    /\ epc = "mask"
    /\ LET r == MaskPii(request_texts[text_i], extracted, DynamicPIIConfig)
       IN  IF r.exc # "none"
           THEN /\ http_response' =
                      ExceptionResponse(r.exc,
                          IF r.exc = "ValueError"
                          THEN "Invalid PII configuration model" ELSE "")
                /\ epc' = "done"
                /\ UNCHANGED <<masked_texts, text_i>>
           ELSE /\ masked_texts' = ListAppend(masked_texts, r.text)
                /\ text_i' = text_i + 1
                /\ epc' = IF text_i < Len(request_texts) THEN "extract"
                                                        ELSE "respond"
                /\ UNCHANGED http_response
    /\ UNCHANGED <<request_texts, request_pii_config, DynamicPIIConfig,
                   prompts, completions, extracted, all_detected_pii>>
    /\ UNCHANGED <<maskVars, parseVars, buildVars, settingsVars>>

\* lines 82-91: the log line (len of every findings value) and MaskResponse,
\* whose field types are validated
Respond ==
    /\ epc = "respond"
    /\ http_response' =
          IF \E k \in 1..Len(all_detected_pii) :
                 all_detected_pii[k].kind \notin {"list", "dict", "str"}
          THEN ExceptionResponse("TypeError", "")
          ELSE IF \E k \in 1..Len(all_detected_pii) :
                      ~IsListOfStrDicts(all_detected_pii[k])
               THEN ExceptionResponse("ValidationError", "")
               ELSE HttpOk(request_texts, masked_texts, all_detected_pii)
    /\ epc' = "done"
    /\ UNCHANGED <<request_texts, request_pii_config, DynamicPIIConfig, text_i,
                   prompts, completions, extracted, masked_texts, all_detected_pii>>
    /\ UNCHANGED <<maskVars, parseVars, buildVars, settingsVars>>

Next == Validate \/ ExtractCall \/ ExtractReturn \/ MaskText \/ Respond

-----------------------------------------------------------------------------
(* create_dynamic_pii_config, called on its own *)

BuildTypes == {T_email, T_phone, T_dob, T_zip}
BuildMasks == {<<>>, <<"X">>, <<"b", "a">>}

\* the mappings of at most MaxCategories categories, the empty one included
BuildMappings ==
    UNION { [S -> BuildMasks] :
              S \in {T \in SUBSET BuildTypes : Cardinality(T) <= MaxCategories} }

BuildIdle ==
    /\ builder_input = <<>>
    /\ builder_output = NotAModel
    /\ bpc = "idle"

BuildInit ==
    /\ builder_input \in BuildMappings
    /\ builder_output = NotAModel
    /\ bpc = "call"

\* lines 68-73: the fields, create_model, the return
BuildCall ==
    /\ bpc = "call"
    /\ builder_output' = CreateDynamicPiiConfig(builder_input)
    /\ bpc' = "returned"
    /\ UNCHANGED builder_input
    /\ UNCHANGED <<maskVars, parseVars, endpointVars, settingsVars>>

NextBuild == BuildCall

-----------------------------------------------------------------------------
(* Settings(): the values come from os.environ, then the .env file, then the
   field's default *)

SettingsFields ==
    {"openai_base_url", "openai_api_key", "openai_model_name", "host", "port"}

\* the variable a field is read from (names are matched without case)
EnvName(field) ==
    CASE field = "openai_base_url"   -> "OPENAI_BASE_URL"
      [] field = "openai_api_key"    -> "OPENAI_API_KEY"
      [] field = "openai_model_name" -> "OPENAI_MODEL_NAME"
      [] field = "host"              -> "HOST"
      [] field = "port"              -> "PORT"

NoDefault == [has |-> FALSE, v |-> "undefined"]
Default(v) == [has |-> TRUE, v |-> v]

\* lines 7-12: the default each field is declared with
FieldDefault(field) ==
    CASE field = "openai_base_url"   -> Default("placeholder")
      [] field = "openai_api_key"    -> Default("placeholder")
      [] field = "openai_model_name" -> Default("placeholder")
      [] field = "host"              -> Default("0.0.0.0")
      [] field = "port"              -> Default(8081)

DecimalValue ==
    ("0" :> 0) @@ ("1" :> 1) @@ ("2" :> 2) @@ ("3" :> 3) @@ ("4" :> 4) @@
    ("5" :> 5) @@ ("6" :> 6) @@ ("7" :> 7) @@ ("8" :> 8) @@ ("9" :> 9)

RECURSIVE DecimalInt(_)
DecimalInt(s) ==
    IF s = <<>> THEN 0
    ELSE 10 * DecimalInt(SubSeq(s, 1, Len(s) - 1)) + DecimalValue[s[Len(s)]]

Valid(v) == [ok |-> TRUE, v |-> v]
Invalid == [ok |-> FALSE, v |-> "invalid"]

\* the raw string of a variable turned into the field's type: str as it is,
\* int from a string of decimal digits
Coerce(field, raw) ==
    IF field # "port" THEN Valid(raw)
    ELSE IF raw # <<>> /\ \A k \in 1..Len(raw) : raw[k] \in DOMAIN DecimalValue
         THEN Valid(DecimalInt(raw))
         ELSE Invalid

\* one field of the instance: environment first, .env second, default last;
\* a field with neither a value nor a default is missing
FieldValue(field, env, file) ==
    IF EnvName(field) \in DOMAIN env THEN Coerce(field, env[EnvName(field)])
    ELSE IF EnvName(field) \in DOMAIN file
         THEN Coerce(field, file[EnvName(field)])
         ELSE IF FieldDefault(field).has THEN Valid(FieldDefault(field).v)
              ELSE Invalid

\* Settings()
SettingsNew(env, file) ==
    IF \E f \in SettingsFields : ~FieldValue(f, env, file).ok
    THEN [exc |-> "ValidationError", value |-> <<>>]
    ELSE [exc |-> "none",
          value |-> [f \in SettingsFields |-> FieldValue(f, env, file).v]]

NotBuilt == [exc |-> "none", value |-> <<>>]

\* what a source may hold: any subset of the five variables, the port as a
\* string of digits or not
SourceValues(text, ports) ==
    { ("OPENAI_BASE_URL" :> text) @@ ("OPENAI_API_KEY" :> text) @@
      ("OPENAI_MODEL_NAME" :> text) @@ ("HOST" :> text) @@ ("PORT" :> p) :
        p \in ports }
Sources(text, ports) ==
    { [n \in S |-> full[n]] :
        S \in SUBSET {EnvName(f) : f \in SettingsFields},
        full \in SourceValues(text, ports) }

SettingsIdle ==
    /\ environ = <<>>
    /\ dotenv = <<>>
    /\ settings = NotBuilt
    /\ spc = "idle"

SettingsInit ==
    /\ environ \in Sources("from-env", {<<"9", "0">>, <<"x">>})
    /\ dotenv \in Sources("from-file", {<<"7", "0">>, <<"x">>})
    /\ settings = NotBuilt
    /\ spc = "start"

\* main.py line 8: settings = Settings()
SettingsConstruct ==
    /\ spc = "start"
    /\ settings' = SettingsNew(environ, dotenv)
    /\ spc' = "done"
    /\ UNCHANGED <<environ, dotenv>>
    /\ UNCHANGED <<maskVars, parseVars, endpointVars, buildVars>>

NextSettings == SettingsConstruct

-----------------------------------------------------------------------------
(* Specifications *)

\* calls of mask_pii on the bounded inputs
InitMask ==
    MaskInit /\ ParseIdle /\ EndpointIdle /\ BuildIdle /\ SettingsIdle
SpecMask == InitMask /\ [][NextMask]_vars

\* POST /mask-pii requests against a provider that answers anything
Init ==
    EndpointInit /\ MaskIdle /\ ParseIdle /\ BuildIdle /\ SettingsIdle
Spec == Init /\ [][Next]_vars

\* calls of parse_json_response on the bounded inputs
InitParse ==
    ParseInit /\ MaskIdle /\ EndpointIdle /\ BuildIdle /\ SettingsIdle
SpecParse == InitParse /\ [][NextParse]_vars

\* calls of create_dynamic_pii_config on the bounded mappings
InitBuild ==
    BuildInit /\ MaskIdle /\ ParseIdle /\ EndpointIdle /\ SettingsIdle
SpecBuild == InitBuild /\ [][NextBuild]_vars

\* Settings() under every combination of environment and .env file
InitSettings ==
    SettingsInit /\ MaskIdle /\ ParseIdle /\ EndpointIdle /\ BuildIdle
SpecSettings == InitSettings /\ [][NextSettings]_vars

-----------------------------------------------------------------------------
(* Claims about mask_pii *)

MaskIsList == extracted_pii.kind = "list"

\* the entry of the schema for a finding's type, when the type is a key
HasSchemaKey(f, cfg) ==
    /\ f.kind = "dict"
    /\ K_type \in DOMAIN f.d
    /\ f.d[K_type].kind = "str"
    /\ f.d[K_type].s \in DOMAIN cfg.model_fields

SchemaExtra(f, cfg) == cfg.model_fields[f.d[K_type].s].json_schema_extra

\* the schema entry of the finding's type carries a non-empty mask string
HasMaskString(f, cfg) ==
    /\ HasSchemaKey(f, cfg)
    /\ SchemaExtra(f, cfg).kind = "dict"
    /\ K_mask \in DOMAIN SchemaExtra(f, cfg).d
    /\ SchemaExtra(f, cfg).d[K_mask].kind = "str"
    /\ SchemaExtra(f, cfg).d[K_mask].s # <<>>

MaskStringOf(f, cfg) == SchemaExtra(f, cfg).d[K_mask].s

\* the starts of the left-to-right non-overlapping occurrences of p in s
GreedyStarts(s, p) ==
    LET Occ == {i \in 1..Len(s) : OccursAt(s, p, i)}
    IN  CHOOSE G \in SUBSET Occ :
            \A i \in Occ : (i \in G) <=> ~(\E j \in G : j < i /\ i < j + Len(p))

RECURSIVE Spliced(_, _, _, _, _)
Spliced(s, p, m, G, k) ==
    IF k > Len(s) THEN <<>>
    ELSE (IF k \in G THEN m
          ELSE IF \E j \in G : j < k /\ k < j + Len(p) THEN <<>>
          ELSE <<s[k]>>) \o Spliced(s, p, m, G, k + 1)

C1_SingleFinding ==
    /\ HasModelFields(config)
    /\ MaskIsList
    /\ Len(extracted_pii.items) = 1
    /\ HasMaskString(extracted_pii.items[1], config)
    /\ K_pii \in DOMAIN extracted_pii.items[1].d
    /\ extracted_pii.items[1].d[K_pii].kind = "str"
    /\ extracted_pii.items[1].d[K_pii].s # <<>>

\* C1: with a single finding {pii: p, type: t}, p non-empty, t a schema key
\* with a non-empty mask m, mask_pii returns the text with every left-to-right
\* non-overlapping occurrence of p replaced by m and every other character
\* kept.
C1_EveryOccurrenceReplaced ==
    (MaskDone /\ C1_SingleFinding) =>
        LET f == extracted_pii.items[1]
            p == f.d[K_pii].s
        IN  /\ mpc = "returned"
            /\ masked_text = Spliced(input_text, p, MaskStringOf(f, config),
                                     GreedyStarts(input_text, p), 1)

\* two occurrences with a kept character between them, all replaced
C1_Witness ==
    /\ mpc = "returned"
    /\ C1_SingleFinding
    /\ Cardinality(GreedyStarts(input_text,
                                extracted_pii.items[1].d[K_pii].s)) >= 2
    /\ \E k \in 1..Len(input_text) :
           input_text[k] \notin {c \in MaskAlphabet :
               \E j \in 1..Len(extracted_pii.items[1].d[K_pii].s) :
                   extracted_pii.items[1].d[K_pii].s[j] = c}
    /\ masked_text # input_text

\* the finding's type is a schema key whose entry carries no mask string
NoMaskFinding(f, cfg) == HasSchemaKey(f, cfg) /\ ~HasMaskString(f, cfg)

WithoutNoMask(items, cfg) == SelectSeq(items, LAMBDA f : ~NoMaskFinding(f, cfg))

\* C2: a finding whose type is a schema key without a mask string (no mask
\* metadata at all, or an empty mask) does not make mask_pii raise, leaves
\* the text unaltered, and the other findings are still processed: the call
\* ends as it does with those findings deleted.
C2_NoMaskFindingSkipped ==
    (MaskDone /\ MaskIsList /\ HasModelFields(config)) =>
        MaskOutcome = MaskPii(input_text,
                              PyList(WithoutNoMask(extracted_pii.items, config)),
                              config)

\* pii missing/None/empty, type missing/None/empty, or an empty dict
Malformed(f) ==
    /\ f.kind = "dict"
    /\ \/ K_pii \notin DOMAIN f.d
       \/ f.d[K_pii] = PyNone
       \/ f.d[K_pii] = PyStr(<<>>)
       \/ K_type \notin DOMAIN f.d
       \/ f.d[K_type] = PyNone
       \/ f.d[K_type] = PyStr(<<>>)

WithoutMalformed(items) == SelectSeq(items, LAMBDA f : ~Malformed(f))

\* C3: malformed findings are ignored without raising: the call ends as it
\* does with the malformed entries deleted, and a list made only of
\* malformed entries returns the input text (given a schema class).
C3_MalformedIgnored ==
    (MaskDone /\ MaskIsList) =>
        /\ MaskOutcome = MaskPii(input_text,
                                 PyList(WithoutMalformed(extracted_pii.items)),
                                 config)
        /\ (HasModelFields(config) /\ WithoutMalformed(extracted_pii.items) = <<>>)
              => (mpc = "returned" /\ masked_text = input_text)

\* a malformed entry next to a finding that did mask something
C3_Witness ==
    /\ mpc = "returned"
    /\ MaskIsList
    /\ \E k \in 1..Len(extracted_pii.items) : Malformed(extracted_pii.items[k])
    /\ masked_text # input_text

\* the finding names a type that is not a key of the schema
UnknownType(f, cfg) ==
    /\ f.kind = "dict"
    /\ K_type \in DOMAIN f.d
    /\ f.d[K_type].kind = "str"
    /\ f.d[K_type].s # <<>>
    /\ f.d[K_type].s \notin DOMAIN cfg.model_fields

WithoutUnknown(items, cfg) == SelectSeq(items, LAMBDA f : ~UnknownType(f, cfg))

\* C4: a finding whose type is not a key of the schema (case-sensitively)
\* never alters the text: the call ends as it does with all findings of
\* unknown type deleted.
C4_UnknownTypeIgnored ==
    (MaskDone /\ MaskIsList /\ HasModelFields(config)) =>
        MaskOutcome = MaskPii(input_text,
                              PyList(WithoutUnknown(extracted_pii.items, config)),
                              config)

\* a finding of type "Email" against a schema with key "email", its pii
\* present in the text, left alone
C4_Witness ==
    /\ mpc = "returned"
    /\ MaskIsList
    /\ HasModelFields(config)
    /\ T_email \in DOMAIN config.model_fields
    /\ \E k \in 1..Len(extracted_pii.items) :
          /\ UnknownType(extracted_pii.items[k], config)
          /\ extracted_pii.items[k].d[K_type].s = T_Email
          /\ K_pii \in DOMAIN extracted_pii.items[k].d
          /\ extracted_pii.items[k].d[K_pii].kind = "str"
          /\ \E i \in 1..Len(input_text) :
                 OccursAt(input_text, extracted_pii.items[k].d[K_pii].s, i)
    /\ masked_text = input_text

-----------------------------------------------------------------------------
(* Claims about parse_json_response *)

\* the payload text is the serialisation of a JSON array
IsArrayText(b) ==
    /\ b = Strip(b)
    /\ JsonLoads(b).ok
    /\ JsonLoads(b).val.kind = "list"

ContainsFence(b) == \E i \in 1..Len(b) : FenceAt(b, i)

\* the response holds the payload text inside a fence
FencedWrappings ==
    { "fence_json", "fence_plain", "fence_json_tight", "fence_prose",
      "two_blocks", "fence_other_tag" }

\* ... with the tag json or with no tag
JsonFencedWrappings == FencedWrappings \ {"fence_other_tag"}

\* C5 as stated: for any JSON array serialised as s, wrapped in a fence with
\* or without a language tag, the parser extracts the trimmed content of the
\* first pair of fences (s itself) and ends as parsing the unfenced s does.
C5_FencedSameAsUnfenced ==
    (ParseDone /\ wrapping \in FencedWrappings /\ IsArrayText(payload_text)) =>
        /\ json_str = payload_text
        /\ parsed = ParseJsonResponse(PyStr(payload_text))

\* C5 amended: the same for a serialisation that contains no triple backtick
\* and a fence whose tag is json or absent; the array is returned.
C5_FencedSameAsUnfencedNoBackticks ==
    (/\ ParseDone
     /\ wrapping \in JsonFencedWrappings
     /\ IsArrayText(payload_text)
     /\ ~ContainsFence(payload_text)) =>
        /\ json_str = payload_text
        /\ ppc = "returned"
        /\ parsed = Returned(JsonLoads(payload_text).val)
        /\ parsed = ParseJsonResponse(PyStr(payload_text))

\* a fenced array of one finding, tagged json, returned as the array
C5_Witness ==
    /\ ppc = "returned"
    /\ wrapping = "fence_json"
    /\ payload_text = ArrayOf(FindingText(<<"a">>, <<"b">>))
    /\ parsed.value.kind = "list"
    /\ Len(parsed.value.items) = 1
    /\ parsed.value.items[1] = Finding(PyStr(<<"a">>), PyStr(<<"b">>))

\* C6: whenever the selected content (first fenced block, else the whole
\* trimmed text) is not valid JSON, parse_json_response raises ValueError
\* with the message prefix "Invalid JSON response" and returns no value.
C6_InvalidJsonRaises ==
    (ParseDone /\ response.kind = "str" /\ ~JsonLoads(json_str).ok) =>
        /\ ppc = "raised"
        /\ parsed.exc = "ValueError"
        /\ parsed.msg = "Invalid JSON response"
        /\ parsed.value = PyNone

\* the first fenced block is not JSON although a later block is
C6_Witness ==
    /\ ppc = "raised"
    /\ parsed.exc = "ValueError"
    /\ wrapping = "two_blocks"
    /\ ~JsonLoads(payload_text).ok
    /\ json_str = Strip(payload_text)

\* C7: when the selected content is valid JSON but not an array (an object,
\* number, string, null), parse_json_response raises the parse error.
C7_NonArrayRaises ==
    (/\ ParseDone
     /\ response.kind = "str"
     /\ JsonLoads(json_str).ok
     /\ JsonLoads(json_str).val.kind # "list") =>
        (ppc = "raised" /\ parsed.exc = "ValueError")

-----------------------------------------------------------------------------
(* Claims about POST /mask-pii *)

\* the text is empty or made of whitespace only
WhitespaceOnly(text) == \A k \in 1..Len(text) : text[k] \in {" ", NL}

InvalidRequest ==
    \/ DOMAIN request_pii_config = {}
    \/ request_texts = <<>>
    \/ \E k \in 1..Len(request_texts) : WhitespaceOnly(request_texts[k])

\* C8: a request with an empty pii_config, an empty texts list or any empty
\* or whitespace-only text is answered with status 400 and a detail message,
\* and the provider is called zero times during it.
C8_InvalidRequestRejectedBeforeProvider ==
    (epc # "idle" /\ InvalidRequest) =>
        /\ completions = <<>>
        /\ epc \in {"received", "done"}
        /\ epc = "done" =>
              (http_response.status = 400 /\ http_response.detail # "")

\* the second text is the whitespace-only one
C8_Witness ==
    /\ epc = "done"
    /\ Len(request_texts) = 2
    /\ ~WhitespaceOnly(request_texts[1])
    /\ WhitespaceOnly(request_texts[2])
    /\ DOMAIN request_pii_config # {}
    /\ http_response.status = 400
    /\ completions = <<>>

\* the provider answered call k with a text parse_json_response rejects
ParseErrorAt(k) ==
    /\ completions[k].kind = "completion"
    /\ completions[k].content.kind = "str"
    /\ ParseJsonResponse(completions[k].content).exc = "ValueError"

\* C9: a failure to parse the model's output for any text is surfaced as an
\* internal error, status 500.
C9_ParseErrorIs500 ==
    (epc = "done" /\ \E k \in 1..Len(completions) : ParseErrorAt(k)) =>
        http_response.status = 500

\* extraction of text k failed: provider error, or no parseable content
ExtractionFailsAt(k) ==
    \/ completions[k].kind = "error"
    \/ ParseJsonResponse(completions[k].content).exc # "none"

\* masking of text k failed
MaskingFailsAt(k) ==
    /\ ~ExtractionFailsAt(k)
    /\ MaskPii(request_texts[k],
               ParseJsonResponse(completions[k].content).value,
               CreateDynamicPiiConfig(request_pii_config)).exc # "none"

\* C10: if extraction or masking fails for some text of the request, the
\* request ends in an error response and no response carrying masked_texts
\* or detected_pii is ever returned.
C10_AllOrNothing ==
    (\E k \in 1..Len(completions) : ExtractionFailsAt(k) \/ MaskingFailsAt(k)) =>
        /\ http_response.status # 200
        /\ http_response.masked_texts = <<>>
        /\ http_response.detected_pii = <<>>
        /\ epc = "done" => http_response.status \in {400, 500}

\* the first text was masked, the provider failed on the second
C10_Witness ==
    /\ epc = "done"
    /\ Len(completions) = 2
    /\ completions[2].kind = "error"
    /\ Len(masked_texts) = 1
    /\ masked_texts[1] # request_texts[1]
    /\ http_response.status = 500
    /\ http_response.masked_texts = <<>>

\* the findings the handler obtained for text k: the parsed completion k
FindingsOf(k) == ParseJsonResponse(completions[k].content).value

\* the masked form of text k under the request's configuration
MaskedOf(k) ==
    MaskPii(request_texts[k], FindingsOf(k),
            CreateDynamicPiiConfig(request_pii_config)).text

\* C11: a 200 response carries the request's texts unchanged as
\* original_texts, and masked_texts and detected_pii have one entry per input
\* text, entry k being the masked text and the findings of input text k.
C11_ResponseAlignedWithRequest ==
    http_response.status = 200 =>
        /\ http_response.original_texts = request_texts
        /\ Len(http_response.masked_texts) = Len(request_texts)
        /\ Len(http_response.detected_pii) = Len(request_texts)
        /\ Len(completions) = Len(request_texts)
        /\ \A k \in 1..Len(request_texts) :
              /\ http_response.detected_pii[k] = FindingsOf(k)
              /\ http_response.masked_texts[k] = MaskedOf(k)

\* a 200 response for two texts whose findings and masked forms differ, the
\* second one actually masked
C11_Witness ==
    /\ http_response.status = 200
    /\ Len(request_texts) = 2
    /\ http_response.detected_pii[1] # http_response.detected_pii[2]
    /\ http_response.masked_texts[1] # http_response.masked_texts[2]
    /\ http_response.masked_texts[2] # request_texts[2]

\* the request passed every check of lines 49-61, so an error response for
\* it comes from the provider call, the parsing, the masking or the building
\* of the response
InternalFailure ==
    /\ epc = "done"
    /\ ~InvalidRequest
    /\ http_response.status # 200

\* C12: an exception of the handler that is not a request or configuration
\* validation error is answered with status 500 and the fixed detail
\* 'Internal server error', never with the exception's message.
C12_InternalFailureIsGeneric500 ==
    InternalFailure =>
        /\ http_response.status = 500
        /\ http_response.detail = "Internal server error"

\* C14: every finding listed in detected_pii of a 200 response names a
\* category of the request's schema; a finding of any other type is left out
\* of the detection output.
C14_DetectedPiiWithinSchema ==
    http_response.status = 200 =>
        \A k \in 1..Len(http_response.detected_pii) :
            \A j \in 1..Len(http_response.detected_pii[k].items) :
                HasSchemaKey(http_response.detected_pii[k].items[j],
                             CreateDynamicPiiConfig(request_pii_config))

\* C17: within one request the provider is called at most once per input
\* text, the calls follow the input order, the call for a text is made only
\* after the masking of the text before it has finished, and no call follows
\* a failed provider call, parse or masking.
C17_OneCallPerTextInOrder ==
    /\ Len(prompts) = Len(completions)
    /\ Len(prompts) <= Len(request_texts)
    /\ \A k \in 1..Len(prompts) : prompts[k] = request_texts[k]
    /\ Len(prompts) <= Len(masked_texts) + 1
    /\ \A k \in 1..(Len(prompts) - 1) :
          /\ ~ExtractionFailsAt(k)
          /\ ~MaskingFailsAt(k)

\* two different texts, the extraction of the first failed, the request
\* ended and the second text was never sent
C17_Witness ==
    /\ epc = "done"
    /\ Len(request_texts) = 2
    /\ request_texts[1] # request_texts[2]
    /\ prompts = <<request_texts[1]>>
    /\ ExtractionFailsAt(1)
    /\ http_response.status \in {400, 500}

\* mask_pii applied to the outcome of an earlier call: an exception of the
\* earlier call is the outcome
MaskPiiThen(r, findings, cfg) ==
    IF r.exc # "none" THEN r ELSE MaskPii(r.text, findings, cfg)

\* the entries j..k of a list of findings, as a list
Findings(items, j, k) == PyList(SubSeq(items, j, k))

\* the substring occurs somewhere in the text
Occurs(text, sub) == \E k \in 1..Len(text) : OccursAt(text, sub, k)

\* C16: mask_pii applies the findings in the order supplied, each to the
\* output of the one before it: for every split of the list into F1 ++ F2,
\* mask_pii(text, F1 ++ F2) = mask_pii(mask_pii(text, F1), F2).
C16_MaskPiiComposes ==
    (MaskDone /\ MaskIsList) =>
        \A j \in 0..Len(extracted_pii.items) :
            MaskOutcome =
                MaskPiiThen(MaskPii(input_text,
                                    Findings(extracted_pii.items, 1, j), config),
                            Findings(extracted_pii.items, j + 1,
                                     Len(extracted_pii.items)),
                            config)

\* two findings, the pii of the second absent from the input text but part
\* of the mask token the first one inserted: the second rewrites the token,
\* and masking the result again with the same list changes it once more
C16_Witness ==
    /\ mpc = "returned"
    /\ MaskIsList
    /\ Len(extracted_pii.items) = 2
    /\ LET f1 == extracted_pii.items[1]
           f2 == extracted_pii.items[2]
           first == MaskPii(input_text, PyList(<<f1>>), config)
       IN  /\ HasSchemaKey(f1, config) /\ HasSchemaKey(f2, config)
           /\ ~Malformed(f2)
           /\ DictGet(f2, K_pii).kind = "str"
           /\ ~Occurs(input_text, DictGet(f2, K_pii).s)
           /\ first.exc = "none"
           /\ Occurs(first.text, DictGet(f2, K_pii).s)
           /\ masked_text # first.text
    /\ MaskPii(masked_text, extracted_pii, config) # Ok(masked_text)

\* C13 as stated: a call of create_dynamic_pii_config on an empty mapping
\* fails, and no call returns a schema with zero categories.
C13_EmptyMappingRejected ==
    /\ (bpc # "call" /\ DOMAIN builder_input = {}) => bpc = "raised"
    /\ bpc = "returned" => DOMAIN builder_output.model_fields # {}

\* C13: create_dynamic_pii_config returns for every mapping, the empty one
\* included, a model class whose fields are exactly the mapping's categories,
\* each carrying its mask; for the empty mapping that is a class with zero
\* fields.
C13_BuilderReturnsModelOfMapping ==
    /\ bpc \in {"idle", "call", "returned"}
    /\ bpc = "returned" =>
          /\ HasModelFields(builder_output)
          /\ DOMAIN builder_output.model_fields = DOMAIN builder_input
          /\ \A t \in DOMAIN builder_input :
                builder_output.model_fields[t].json_schema_extra =
                    DictSet(EmptyDict, K_mask, PyStr(builder_input[t]))

\* the builder returned a class with zero fields for the empty mapping
C13_Witness ==
    /\ bpc = "returned"
    /\ DOMAIN builder_input = {}
    /\ HasModelFields(builder_output)
    /\ DOMAIN builder_output.model_fields = {}

RequiredFields == {"openai_base_url", "openai_api_key", "openai_model_name"}

\* the field has a value neither in the environment nor in the .env file
Absent(field) ==
    /\ EnvName(field) \notin DOMAIN environ
    /\ EnvName(field) \notin DOMAIN dotenv

\* C15: Settings() fails with a validation error when the base URL, the API
\* key or the model name is absent from both the environment and the .env
\* file; with the three present and host and port absent, the host is
\* 0.0.0.0 and the port 8081.
C15_RequiredSettingsEnforced ==
    spc = "done" =>
        /\ (\E f \in RequiredFields : Absent(f)) =>
              settings.exc = "ValidationError"
        /\ ((\A f \in RequiredFields : ~Absent(f))
              /\ Absent("host") /\ Absent("port")) =>
              /\ settings.exc = "none"
              /\ settings.value["host"] = "0.0.0.0"
              /\ settings.value["port"] = 8081

====
